---- MODULE Spec2Model ----
(***************************************************************************)
(* A model of the transaction-graph anomaly engine (FraudEncoder,          *)
(* src/scenario_adaptation/fraud_encoder.py) and of the adaptive pattern   *)
(* stores (AdaptiveSystem, src/information_extraction/adaptive_system.py;  *)
(* AdaptiveLearningManager, src/information_extraction/adaptive_learning.py)*)
(* and of the time-anomaly detector (FraudDetector,                        *)
(* src/information_extraction/anomaly_detector.py).                        *)
(*                                                                         *)
(* Time is a grid of minutes: a timestamp is an integer number of minutes, *)
(* datetime.now() reads the variable clock, and two readings are equal     *)
(* when the clock has not ticked between them; all readings of one call    *)
(* are equal.  Amounts are numbers on a grid whose step is 1.  Pattern     *)
(* weights are fixed-point numbers, W_ONE being the weight 1.0; a product  *)
(* is exact as long as a weight has been multiplied at most 8 times.  The  *)
(* text of a DATE entity is its layout with its hour and minute, on one    *)
(* fixed day; a timezone is its offset from UTC on that day, in hours.     *)
(* Accuracies are fixed-point numbers, ACC_ONE being the accuracy 1.0;     *)
(* means and slopes of a report are fractions [num, den].  The file of     *)
(* AdaptiveSystem is the text it holds.  Threads that share one            *)
(* AdaptiveSystem take one read or one write of the store per step.        *)
(***************************************************************************)
EXTENDS Integers, Sequences, FiniteSets, TLC

VARIABLES
    nodes,          \* FraudEncoder.graph: the nodes, in insertion order, each [id, attrs]
    edges,          \* FraudEncoder.graph: the edges, in insertion order, each [src, dst, relation_type]
    transactions,   \* FraudEncoder.transactions
    clock,          \* what datetime.now() returns
    ops,            \* number of add_transaction_chunk calls made so far
    call,           \* the handler that ran last
    out,            \* what the last add_transaction_chunk returned
    suspicious,     \* what detect_suspicious_patterns returned, when it ran last
    transfers,      \* history: the transfers _process_transfer recorded, each [source, target, timestamp]
    mentions,       \* history: how often each account id was an ACCOUNT entity or an AccountID
    patterns,       \* AdaptiveSystem.patterns: pattern text -> [type, count]
    pattern_order,  \* AdaptiveSystem.patterns: the keys, in the order the dict keeps them
    pattern_weights,\* AdaptiveSystem.pattern_weights: pattern text -> weight
    entity_patterns,\* AdaptiveLearningManager.entity_patterns: pattern key -> [text, type, weight]
    raised,         \* the exception the last pattern-store call ended with, "" when it returned
    events,         \* number of pattern-store calls made so far
    enhance_text,   \* the text of the last enhance_recognition call
    enhance_entities,\* the caller's entity list, as the last enhance_recognition call left it
    enhanced,       \* what the last enhance_recognition call returned
    host_offset,    \* the host's local timezone, in hours east of UTC
    time_entities,  \* the entities of the last detect_time_anomalies call
    time_anomalies, \* what the last detect_time_anomalies call returned
    time_raised,    \* the exception the last detect_time_anomalies call ended with, "" when it returned
    time_calls,     \* number of detect_time_anomalies calls made so far
    feedback_history,\* AdaptiveLearningManager.feedback_history
    entity_accuracy,\* AdaptiveLearningManager.performance_metrics['entity_accuracy']
    processing_time,\* AdaptiveLearningManager.performance_metrics['processing_time']
    report,         \* what the last get_performance_report call returned
    patterns_file,  \* AdaptiveSystem.patterns_file: "absent", or what the file holds
    workers         \* the threads that run update_patterns: thread -> [pc, todo, input, reg]

fraudVars == <<nodes, edges, transactions, clock, ops, call, out, suspicious, transfers, mentions>>
patternVars == <<patterns, pattern_order, pattern_weights, entity_patterns, raised, events>>
enhanceVars == <<enhance_text, enhance_entities, enhanced>>
timeVars == <<host_offset, time_entities, time_anomalies, time_raised, time_calls>>
feedbackVars == <<feedback_history, entity_accuracy, processing_time, report>>
fileVars == <<patterns_file>>
workerVars == <<workers>>
vars == <<nodes, edges, transactions, clock, ops, call, out, suspicious, transfers, mentions,
          patterns, pattern_order, pattern_weights, entity_patterns, raised, events,
          enhance_text, enhance_entities, enhanced,
          host_offset, time_entities, time_anomalies, time_raised, time_calls,
          feedback_history, entity_accuracy, processing_time, report,
          patterns_file, workers>>

---------------------------------------------------------------------------
(* Bounds of the model *)

MaxOps == 2         \* ingestion calls in SpecGraph
MaxChunks == 3      \* ingestion calls in SpecText
MaxRows == 4        \* ingestion calls in SpecDetect
MaxClock == 1       \* the last minute the clock reaches
MaxEvents == 6      \* pattern-store calls in SpecPattern
MaxTimeCalls == 1   \* detect_time_anomalies calls in SpecTime
MaxStoreOps == 3    \* pattern-store calls in SpecStore
MaxEnhanceCalls == 1 \* enhance_recognition calls in SpecEnhance
MaxFeedback == 2    \* update_from_feedback calls in SpecFeedback
MaxRestartOps == 3  \* pattern-store calls and constructions in SpecRestart
MaxWorkerCalls == 2  \* update_patterns calls of the threads in SpecWorkers
MaxObservations == 101 \* update_from_feedback calls, those before Init counted, in SpecWindow

(* Inputs *)

Workers == {"w1", "w2"}     \* the threads that share one AdaptiveSystem

Accounts == {"A", "B"}
NoText == ""                \* an empty text, also getattr's default
RowDates == {0, 5, 15}      \* TransactionDate values, in minutes
RowAmounts == {1000, 1001}  \* TransactionAmount values

(* Program constants *)

NaT == -1                       \* a missing TransactionDate (pd.isna)
TimeWindowMinutes == 15         \* FraudEncoder.__init__(time_window_minutes=15)
HighFrequencyCount == 3         \* len(txs) >= 3
LargeAmountThreshold == 1000    \* tx["amount"] > 1000
ConfiguredLargeAmount == 10000  \* FRAUD_DETECTION_CONFIG["thresholds"]["large_amount"]
W_ONE == 100000000              \* the weight 1.0 of a new pattern, in fixed point
ContextRadius == 20             \* entity.start - 20, entity.end + 20
W_HALF == 50000000              \* the weight 0.5 of "if weight < 0.5", in fixed point
ACC_ONE == 100                  \* the accuracy 1.0, in fixed point
WindowSize == 100               \* performance_metrics['entity_accuracy'][-100:]

---------------------------------------------------------------------------
(* Conversions *)

\* datetime.isoformat(): one text per timestamp.
IsoFormat(t) == ToString(t)

\* datetime.timestamp(), formatted into an f-string: one text per timestamp.
TimestampText(t) == ToString(t)

---------------------------------------------------------------------------
(* networkx.MultiDiGraph, as FraudEncoder uses it *)

NoAttrs == [a \in {} |-> ""]

HasNode(ns, id) == \E i \in DOMAIN ns : ns[i].id = id

\* graph.add_node(id, **attrs): a new node, or the attributes of the node
\* that is there updated with attrs.
AddNode(ns, id, attrs) ==
    IF HasNode(ns, id)
    THEN [i \in DOMAIN ns |->
            IF ns[i].id = id THEN [id |-> id, attrs |-> attrs @@ ns[i].attrs] ELSE ns[i]]
    ELSE Append(ns, [id |-> id, attrs |-> attrs])

\* graph.add_edge(u, v, relation_type=rel): nodes u and v are created without
\* attributes when they are missing, and one more parallel edge is added.
AddEdgeNodes(ns, u, v) ==
    LET n1 == IF HasNode(ns, u) THEN ns ELSE Append(ns, [id |-> u, attrs |-> NoAttrs])
    IN  IF HasNode(n1, v) THEN n1 ELSE Append(n1, [id |-> v, attrs |-> NoAttrs])

AddEdge(es, u, v, rel) == Append(es, [src |-> u, dst |-> v, relation_type |-> rel])

NodeType(n) == IF "node_type" \in DOMAIN n.attrs THEN n.attrs.node_type ELSE NoText

\* A thread that runs no call
IdleWorker == [pc |-> "idle", todo |-> <<>>, input |-> <<>>, reg |-> 0]

---------------------------------------------------------------------------
(* FraudEncoder: ingestion *)

\* A faulty upsert: the account node is appended without asking has_node.
UpsertAccountAlways(ns, acc, t) ==
    Append(ns, [id |-> acc,
                attrs |-> [node_type |-> "account", last_activity |-> IsoFormat(t)]])

\* The account upsert of add_transaction_chunk and _process_dataframe_row:
\* if not graph.has_node(acc): graph.add_node(acc, node_type="account", last_activity=...)
UpsertAccount(ns, acc, t) ==
    IF HasNode(ns, acc)
    THEN ns
    ELSE AddNode(ns, acc, [node_type |-> "account", last_activity |-> IsoFormat(t)])

\* The orders in which "for acc in accounts" may walk the set accounts: the
\* order of a Python set of texts is not fixed.
WalkOrders(accs) ==
    {order \in [1..Cardinality(accs) -> accs] : \A a \in accs : \E i \in DOMAIN order : order[i] = a}

\* for acc in accounts: upsert
RECURSIVE UpsertAccounts(_, _, _)
UpsertAccounts(ns, order, t) ==
    IF order = <<>> THEN ns
    ELSE UpsertAccounts(UpsertAccount(ns, Head(order), t), Tail(order), t)

\* tx_id = f"tx_{source}_{target}_{datetime.now().timestamp()}"
TransferTxId(source, target, t) ==
    "tx_" \o source \o "_" \o target \o "_" \o TimestampText(t)

\* tx_id = f"tx_{source_acc}_{timestamp.timestamp()}"
RowTxId(source_acc, t) == "tx_" \o source_acc \o "_" \o TimestampText(t)

\* _process_transfer(source, target), on g = [nodes, edges, transfers]
ProcessTransfer(g, source, target, t) ==
    IF source = NoText \/ target = NoText
    THEN g
    ELSE LET tx_id == TransferTxId(source, target, t)
             n1 == AddNode(g.nodes, tx_id,
                           [node_type |-> "transaction", timestamp |-> IsoFormat(t)])
             n2 == AddEdgeNodes(n1, source, tx_id)
             e2 == AddEdge(g.edges, source, tx_id, "initiated")
             n3 == AddEdgeNodes(n2, tx_id, target)
             e3 == AddEdge(e2, tx_id, target, "sent_to")
         IN  [nodes |-> n3, edges |-> e3,
              transfers |-> Append(g.transfers,
                                   [source |-> source, target |-> target, timestamp |-> t]),
              raised |-> FALSE]

\* for rel in chunk.relations: ...   A relation without a source attribute
\* makes rel.source raise AttributeError, which ends the loop.
RECURSIVE ProcessRelations(_, _, _)
ProcessRelations(g, rels, t) ==
    IF rels = <<>> THEN g
    ELSE LET rel == Head(rels)
         IN  IF rel.relation_type # "TRANSFER_TO"
             THEN ProcessRelations(g, Tail(rels), t)
             ELSE IF ~rel.has_source
                  THEN [g EXCEPT !.raised = TRUE]
                  ELSE ProcessRelations(ProcessTransfer(g, rel.source, rel.target, t),
                                        Tail(rels), t)

\* _generate_output
GenerateOutput(ns, es, txs) ==
    [kind |-> "output", nodes_count |-> Len(ns), edges_count |-> Len(es),
     transactions_count |-> Len(txs)]

EmptyOutput == [kind |-> "empty"]

Relations ==
    [relation_type : {"TRANSFER_TO"}, has_source : {TRUE},
     source : Accounts \cup {NoText}, target : Accounts \cup {NoText}]
    \cup {[relation_type |-> "TRANSFER_TO", has_source |-> FALSE,
           source |-> NoText, target |-> NoText],
          [relation_type |-> "BELONGS_TO", has_source |-> TRUE,
           source |-> "A", target |-> "B"]}

RelationLists == {<<>>} \cup {<<r>> : r \in Relations}

\* add_transaction_chunk(chunk), chunk a text chunk whose ACCOUNT entities
\* have the texts accs, walked in the order order, and whose relations are rels
AddChunkCall(limit, accs, rels, order) ==
    /\ ops < limit
    /\ LET n1 == UpsertAccounts(nodes, order, clock)
           g == ProcessRelations([nodes |-> n1, edges |-> edges,
                                  transfers |-> transfers, raised |-> FALSE],
                                 rels, clock)
       IN  /\ nodes' = g.nodes
           /\ edges' = g.edges
           /\ transfers' = g.transfers
           /\ out' = IF g.raised THEN EmptyOutput
                     ELSE GenerateOutput(g.nodes, g.edges, transactions)
           /\ mentions' = [a \in Accounts |-> mentions[a] + (IF a \in accs THEN 1 ELSE 0)]
    /\ ops' = ops + 1
    /\ call' = "add_transaction_chunk"
    /\ suspicious' = <<>>
    /\ UNCHANGED <<transactions, clock>>
    /\ UNCHANGED patternVars
    /\ UNCHANGED <<enhanceVars, timeVars, feedbackVars, fileVars, workerVars>>

\* add_transaction_chunk(chunk) for every text chunk
AddChunk(limit) ==
    \E accs \in SUBSET Accounts, rels \in RelationLists :
        \E order \in WalkOrders(accs) : AddChunkCall(limit, accs, rels, order)

\* add_transaction_chunk(row) -> _process_dataframe_row(row), row a pandas
\* Series with AccountID acc, TransactionAmount amount, TransactionDate date
AddRow(limit) ==
    /\ ops < limit
    /\ \E acc \in Accounts \cup {NoText}, amount \in RowAmounts, date \in RowDates \cup {NaT} :
         IF acc = NoText
         THEN /\ out' = EmptyOutput
              /\ UNCHANGED <<nodes, edges, transactions, mentions>>
         ELSE LET timestamp == IF date = NaT THEN clock ELSE date
                  n1 == UpsertAccount(nodes, acc, timestamp)
                  tx_id == RowTxId(acc, timestamp)
                  n2 == AddNode(n1, tx_id,
                                [node_type |-> "transaction", amount |-> amount,
                                 timestamp |-> IsoFormat(timestamp)])
                  n3 == AddEdgeNodes(n2, acc, tx_id)
                  e3 == AddEdge(edges, acc, tx_id, "initiated")
                  txs == Append(transactions,
                                [transaction_id |-> tx_id, account_id |-> acc,
                                 amount |-> amount, timestamp |-> timestamp])
              IN  /\ nodes' = n3
                  /\ edges' = e3
                  /\ transactions' = txs
                  /\ out' = GenerateOutput(n3, e3, txs)
                  /\ mentions' = [mentions EXCEPT ![acc] = @ + 1]
    /\ ops' = ops + 1
    /\ call' = "add_transaction_chunk"
    /\ suspicious' = <<>>
    /\ UNCHANGED <<transfers, clock>>
    /\ UNCHANGED patternVars
    /\ UNCHANGED <<enhanceVars, timeVars, feedbackVars, fileVars, workerVars>>

\* Time passes between two calls.
Tick ==
    /\ clock < MaxClock
    /\ clock' = clock + 1
    /\ UNCHANGED <<nodes, edges, transactions, ops, call, out, suspicious, transfers, mentions>>
    /\ UNCHANGED patternVars
    /\ UNCHANGED <<enhanceVars, timeVars, feedbackVars, fileVars, workerVars>>

---------------------------------------------------------------------------
(* FraudEncoder: detect_suspicious_patterns *)

\* The keys of account_transactions, in the order a dict keeps them: each
\* account at the place of its first transaction.
RECURSIVE AccountOrder(_)
AccountOrder(txs) ==
    IF txs = <<>> THEN <<>>
    ELSE LET rest == AccountOrder(SubSeq(txs, 1, Len(txs) - 1))
             acc_id == txs[Len(txs)].account_id
         IN  IF \E i \in DOMAIN rest : rest[i] = acc_id THEN rest ELSE Append(rest, acc_id)

\* account_transactions[acc_id]
AccountTransactions(txs, acc_id) == SelectSeq(txs, LAMBDA tx : tx.account_id = acc_id)

\* One step of the stable sort: tx goes behind every element that is not later.
InsertByTimestamp(sorted, tx) ==
    LET k == Cardinality({i \in DOMAIN sorted : sorted[i].timestamp <= tx.timestamp})
    IN  SubSeq(sorted, 1, k) \o <<tx>> \o SubSeq(sorted, k + 1, Len(sorted))

\* txs.sort(key=lambda x: x["timestamp"]): ascending, equal timestamps keep
\* their order.
RECURSIVE SortByTimestamp(_)
SortByTimestamp(txs) ==
    IF txs = <<>> THEN <<>>
    ELSE InsertByTimestamp(SortByTimestamp(SubSeq(txs, 1, Len(txs) - 1)), txs[Len(txs)])

\* timedelta.total_seconds() / 60 of b - a
MinutesBetween(a, b) == b - a

\* A faulty test: a span equal to the window counts as inside it.
IsHighFrequencyInclusive(txs) ==
    /\ Len(txs) >= HighFrequencyCount
    /\ MinutesBetween(txs[1].timestamp, txs[Len(txs)].timestamp) <= TimeWindowMinutes

\* Another test: some 3 neighbouring transactions lie within the window.
IsHighFrequencySliding(txs) ==
    \E i \in DOMAIN txs :
        /\ i + HighFrequencyCount - 1 <= Len(txs)
        /\ MinutesBetween(txs[i].timestamp, txs[i + HighFrequencyCount - 1].timestamp)
               < TimeWindowMinutes

\* len(txs) >= 3 and time_diff < self.time_window.total_seconds() / 60, txs sorted
IsHighFrequency(txs) ==
    /\ Len(txs) >= HighFrequencyCount
    /\ MinutesBetween(txs[1].timestamp, txs[Len(txs)].timestamp) < TimeWindowMinutes

\* A faulty test: an amount equal to the threshold counts as large.
IsLargeAmountInclusive(tx) == tx.amount >= LargeAmountThreshold

\* tx["amount"] > 1000
IsLargeAmount(tx) == tx.amount > LargeAmountThreshold

HighFrequencyAnomaly(acc_id, txs) ==
    [type |-> "high_frequency_transfer",
     account |-> acc_id,
     transaction_count |-> Len(txs),
     time_range |-> ToString(txs[1].timestamp) \o " - " \o ToString(txs[Len(txs)].timestamp)]

LargeAmountAnomaly(acc_id, tx) ==
    [type |-> "large_amount_transaction",
     transaction_id |-> tx.transaction_id,
     account |-> acc_id,
     amount |-> tx.amount,
     timestamp |-> IsoFormat(tx.timestamp)]

\* for tx in txs: if tx["amount"] > 1000: suspicious.append(...)
RECURSIVE LargeAmountAnomalies(_, _)
LargeAmountAnomalies(acc_id, txs) ==
    IF txs = <<>> THEN <<>>
    ELSE (IF IsLargeAmount(Head(txs)) THEN <<LargeAmountAnomaly(acc_id, Head(txs))>> ELSE <<>>)
         \o LargeAmountAnomalies(acc_id, Tail(txs))

\* The body of "for acc_id, txs in account_transactions.items()"
AccountAnomalies(acc_id, group) ==
    LET txs == SortByTimestamp(group)
    IN  (IF IsHighFrequency(txs) THEN <<HighFrequencyAnomaly(acc_id, txs)>> ELSE <<>>)
        \o LargeAmountAnomalies(acc_id, txs)

RECURSIVE AnomaliesOf(_, _)
AnomaliesOf(accs, txs) ==
    IF accs = <<>> THEN <<>>
    ELSE AccountAnomalies(Head(accs), AccountTransactions(txs, Head(accs)))
         \o AnomaliesOf(Tail(accs), txs)

\* The list detect_suspicious_patterns returns
DetectSuspiciousPatterns(txs) == AnomaliesOf(AccountOrder(txs), txs)

\* A faulty analysis: self.transactions itself is sorted.
TransactionsSortedInPlace(txs) == SortByTimestamp(txs)

\* self.transactions after detect_suspicious_patterns: the sort works on the
\* lists of account_transactions, which the call builds itself.
TransactionsAfterDetect(txs) == txs

Detect ==
    /\ suspicious' = DetectSuspiciousPatterns(transactions)
    /\ transactions' = TransactionsAfterDetect(transactions)
    /\ call' = "detect"
    /\ UNCHANGED <<nodes, edges, clock, ops, out, transfers, mentions>>
    /\ UNCHANGED patternVars
    /\ UNCHANGED <<enhanceVars, timeVars, feedbackVars, fileVars, workerVars>>

---------------------------------------------------------------------------
(* Pattern stores: inputs *)

\* A document is its sequence of characters; entities are spans of it.
Documents == {<<"x", " ", "y">>}

Entities ==
    {[type |-> "ACCOUNT", text |-> "x", start |-> 0, end |-> 1],
     [type |-> "MONEY",   text |-> "x", start |-> 0, end |-> 1],
     [type |-> "MONEY",   text |-> "y", start |-> 2, end |-> 3]}

EntityLists ==
    {<<>>} \cup {<<e>> : e \in Entities} \cup {<<e, f>> : e \in Entities, f \in Entities}

SetMax(S) == CHOOSE x \in S : \A y \in S : y <= x
SetMin(S) == CHOOSE x \in S : \A y \in S : x <= y

Max2(a, b) == IF a >= b THEN a ELSE b
Min2(a, b) == IF a <= b THEN a ELSE b

\* text[a:b], as text
RECURSIVE JoinChars(_)
JoinChars(cs) == IF cs = <<>> THEN "" ELSE Head(cs) \o JoinChars(Tail(cs))

Slice(text, a, b) == JoinChars(SubSeq(text, a + 1, b))

---------------------------------------------------------------------------
(* Pattern weights *)

\* weight *= 1.1, on fixed-point weights
TimesOnePointOne(w) == w + (w \div 10)

---------------------------------------------------------------------------
(* AdaptiveSystem *)

\* A faulty update: a pattern not yet stored takes the place of the whole
\* store.
UpdatePatternForgetting(st, entity) ==
    LET pattern == entity.text
    IN  IF pattern \notin DOMAIN st.patterns
        THEN [patterns |-> (pattern :> [type |-> entity.type, count |-> 1]),
              pattern_weights |-> (pattern :> W_ONE)]
        ELSE [patterns |-> [st.patterns EXCEPT ![pattern].count = @ + 1],
              pattern_weights |->
                  [st.pattern_weights EXCEPT ![pattern] = TimesOnePointOne(@)]]

\* update_patterns: the body of "for entity in entities", on
\* st = [patterns, pattern_weights]
UpdatePattern(st, entity) ==
    LET pattern == entity.text
    IN  IF pattern \notin DOMAIN st.patterns
        THEN [patterns |-> (pattern :> [type |-> entity.type, count |-> 1]) @@ st.patterns,
              pattern_weights |-> (pattern :> W_ONE) @@ st.pattern_weights]
        ELSE [patterns |-> [st.patterns EXCEPT ![pattern].count = @ + 1],
              pattern_weights |->
                  [st.pattern_weights EXCEPT ![pattern] = TimesOnePointOne(@)]]

RECURSIVE UpdatePatternsLoop(_, _)
UpdatePatternsLoop(st, entities) ==
    IF entities = <<>> THEN st
    ELSE UpdatePatternsLoop(UpdatePattern(st, Head(entities)), Tail(entities))

\* The keys of self.patterns after update_patterns: a dict keeps its keys in
\* the order they were first set.
RECURSIVE KeysAfter(_, _)
KeysAfter(order, entities) ==
    IF entities = <<>> THEN order
    ELSE LET pattern == Head(entities).text
         IN  KeysAfter(IF \E i \in DOMAIN order : order[i] = pattern
                       THEN order ELSE Append(order, pattern),
                       Tail(entities))

\* update_patterns(text, entities)
UpdatePatterns(limit) ==
    /\ events < limit
    /\ \E text \in Documents, entities \in EntityLists :
         LET st == UpdatePatternsLoop([patterns |-> patterns,
                                       pattern_weights |-> pattern_weights], entities)
         IN  /\ patterns' = st.patterns
             /\ pattern_weights' = st.pattern_weights
             /\ pattern_order' = KeysAfter(pattern_order, entities)
    /\ raised' = ""
    /\ events' = events + 1
    /\ UNCHANGED entity_patterns
    /\ UNCHANGED fraudVars
    /\ UNCHANGED <<enhanceVars, timeVars, feedbackVars, fileVars, workerVars>>

\* update_patterns run by a thread w on the AdaptiveSystem it shares with the
\* other threads.  The class holds no lock, so that the threads interleave
\* between the reads and the writes of the store; workers[w] is the thread's
\* place (pc), the entities its loop has not yet taken (todo), the entities
\* it was called with (input) and the value it has read (reg).
WorkerEntityLists ==
    {<<[type |-> "ACCOUNT", text |-> "x", start |-> 0, end |-> 1]>>,
     <<[type |-> "MONEY", text |-> "y", start |-> 2, end |-> 3]>>,
     <<[type |-> "ACCOUNT", text |-> "x", start |-> 0, end |-> 1],
       [type |-> "MONEY", text |-> "y", start |-> 2, end |-> 3]>>}

WorkerUnchanged ==
    /\ UNCHANGED entity_patterns
    /\ UNCHANGED fraudVars
    /\ UNCHANGED <<enhanceVars, timeVars, feedbackVars, fileVars>>

\* The thread enters update_patterns(text, entities).
WorkerStart(limit, w) ==
    /\ events < limit
    /\ workers[w].pc \in {"idle", "done", "raised"}
    /\ \E entities \in WorkerEntityLists :
         workers' = [workers EXCEPT ![w] =
                        [pc |-> "test", todo |-> entities, input |-> entities, reg |-> 0]]
    /\ events' = events + 1
    /\ UNCHANGED <<patterns, pattern_order, pattern_weights, raised>>
    /\ WorkerUnchanged

\* for entity in entities: pattern = entity['text'];
\* if pattern not in self.patterns
WorkerTest(w) ==
    /\ workers[w].pc = "test"
    /\ workers' = [workers EXCEPT ![w].pc =
                      IF workers[w].todo = <<>> THEN "done"
                      ELSE IF Head(workers[w].todo).text \notin DOMAIN patterns
                           THEN "insert" ELSE "read_count"]
    /\ UNCHANGED <<patterns, pattern_order, pattern_weights, raised, events>>
    /\ WorkerUnchanged

\* self.patterns[pattern] = {'type': entity['type'], 'count': 1, 'contexts': []}
WorkerInsert(w) ==
    /\ workers[w].pc = "insert"
    /\ LET entity == Head(workers[w].todo)
       IN  /\ patterns' = (entity.text :> [type |-> entity.type, count |-> 1]) @@ patterns
           /\ pattern_order' = KeysAfter(pattern_order, <<entity>>)
    /\ workers' = [workers EXCEPT ![w].pc = "set_weight"]
    /\ UNCHANGED <<pattern_weights, raised, events>>
    /\ WorkerUnchanged

\* self.pattern_weights[pattern] = 1.0, and on to the next entity
WorkerSetWeight(w) ==
    /\ workers[w].pc = "set_weight"
    /\ pattern_weights' = (Head(workers[w].todo).text :> W_ONE) @@ pattern_weights
    /\ workers' = [workers EXCEPT ![w].pc = "test", ![w].todo = Tail(@)]
    /\ UNCHANGED <<patterns, pattern_order, raised, events>>
    /\ WorkerUnchanged

\* self.patterns[pattern]['count'] += 1: the read
WorkerReadCount(w) ==
    /\ workers[w].pc = "read_count"
    /\ workers' = [workers EXCEPT ![w].pc = "write_count",
                                  ![w].reg = patterns[Head(workers[w].todo).text].count]
    /\ UNCHANGED <<patterns, pattern_order, pattern_weights, raised, events>>
    /\ WorkerUnchanged

\* self.patterns[pattern]['count'] += 1: the write
WorkerWriteCount(w) ==
    /\ workers[w].pc = "write_count"
    /\ patterns' = [patterns EXCEPT ![Head(workers[w].todo).text].count = workers[w].reg + 1]
    /\ workers' = [workers EXCEPT ![w].pc = "read_weight"]
    /\ UNCHANGED <<pattern_order, pattern_weights, raised, events>>
    /\ WorkerUnchanged

\* self.pattern_weights[pattern] *= 1.1: the read, a KeyError when another
\* thread has stored the pattern and not yet its weight
WorkerReadWeight(w) ==
    /\ workers[w].pc = "read_weight"
    /\ LET pattern == Head(workers[w].todo).text
       IN  IF pattern \in DOMAIN pattern_weights
           THEN /\ workers' = [workers EXCEPT ![w].pc = "write_weight",
                                              ![w].reg = pattern_weights[pattern]]
                /\ UNCHANGED raised
           ELSE /\ workers' = [workers EXCEPT ![w].pc = "raised"]
                /\ raised' = "KeyError"
    /\ UNCHANGED <<patterns, pattern_order, pattern_weights, events>>
    /\ WorkerUnchanged

\* self.pattern_weights[pattern] *= 1.1: the product and the write, and on to
\* the next entity
WorkerWriteWeight(w) ==
    /\ workers[w].pc = "write_weight"
    /\ pattern_weights' = (Head(workers[w].todo).text :> TimesOnePointOne(workers[w].reg))
                              @@ pattern_weights
    /\ workers' = [workers EXCEPT ![w].pc = "test", ![w].todo = Tail(@)]
    /\ UNCHANGED <<patterns, pattern_order, raised, events>>
    /\ WorkerUnchanged

\* orig_map / corr_map: {(e['start'], e['end']): e for e in ...}; the entity
\* that stands last in the list is the one a span maps to.
SpanMap(entities) ==
    LET spans == {<<entities[i].start, entities[i].end>> : i \in DOMAIN entities}
    IN  [pos \in spans |->
            entities[SetMax({i \in DOMAIN entities :
                                  <<entities[i].start, entities[i].end>> = pos})]]

\* added_entities: the spans of corrected that original does not have
AddedSpans(original, corrected) ==
    DOMAIN SpanMap(corrected) \ DOMAIN SpanMap(original)

\* modified_entities: the spans of both whose types differ
ModifiedSpans(original, corrected) ==
    {pos \in DOMAIN SpanMap(corrected) \cap DOMAIN SpanMap(original) :
        SpanMap(original)[pos].type # SpanMap(corrected)[pos].type}

\* What learn_from_feedback ends with.  __init__ leaves self.patterns a dict:
\* _learn_new_patterns calls self.patterns.append, which a dict does not have,
\* and _update_pattern_weights reads pattern.entity_type of each key of the
\* dict, a str; both raise AttributeError, and nothing has been changed by then.
LearnOutcome(pats, original, corrected) ==
    IF AddedSpans(original, corrected) # {} THEN "AttributeError"
    ELSE IF ModifiedSpans(original, corrected) # {} /\ DOMAIN pats # {}
         THEN "AttributeError"
         ELSE ""

\* What save_patterns leaves in patterns_file: open(..., 'w') empties the file;
\* [asdict(p) for p in self.patterns] walks the keys of the dict, and asdict of
\* a str raises TypeError, which is caught, with nothing written; of an empty
\* store the empty JSON list is written.
SavePatterns(pats) == IF DOMAIN pats = {} THEN "[]" ELSE ""

\* learn_from_feedback(text, original_entities, corrected_entities); a call
\* that raises does not reach save_patterns.  Of _update_performance_metrics
\* only that it returns is kept: no handler of the model reads
\* performance_history.
LearnFromFeedbackCall(limit, text, original, corrected) ==
    /\ events < limit
    /\ raised' = LearnOutcome(patterns, original, corrected)
    /\ patterns_file' = IF LearnOutcome(patterns, original, corrected) = ""
                        THEN SavePatterns(patterns)
                        ELSE patterns_file
    /\ events' = events + 1
    /\ UNCHANGED <<patterns, pattern_order, pattern_weights, entity_patterns>>
    /\ UNCHANGED fraudVars
    /\ UNCHANGED <<enhanceVars, timeVars, feedbackVars, workerVars>>

\* learn_from_feedback for every text and every pair of entity lists
LearnFromFeedback(limit) ==
    \E text \in Documents, original \in EntityLists, corrected \in EntityLists :
        LearnFromFeedbackCall(limit, text, original, corrected)

\* What AdaptiveSystem.__init__ ends with.  load_patterns runs before
\* self.logger is set: when the file exists, self.logger.info after a load, or
\* self.logger.error after a failed load, raises AttributeError out of __init__.
ConstructOutcome(file) == IF file = "absent" THEN "" ELSE "AttributeError"

\* AdaptiveSystem() on the same data directory, in the place of the instance
\* before it; a construction that raises leaves no instance, and so no store
ConstructAdaptiveSystem(limit) ==
    /\ events < limit
    /\ raised' = ConstructOutcome(patterns_file)
    /\ patterns' = NoAttrs
    /\ pattern_order' = <<>>
    /\ pattern_weights' = NoAttrs
    /\ events' = events + 1
    /\ UNCHANGED entity_patterns
    /\ UNCHANGED fraudVars
    /\ UNCHANGED <<enhanceVars, timeVars, feedbackVars, fileVars, workerVars>>

---------------------------------------------------------------------------
(* AdaptiveSystem: enhance_recognition *)

EnhanceTexts == {<<"x", " ", "y">>, <<"x", " ", "y", "x">>}

\* re.finditer(re.escape(pattern), text) from place i on: the occurrences of
\* the literal pattern, from left to right, none overlapping the one before
RECURSIVE FindIter(_, _, _)
FindIter(text, pattern, i) ==
    IF i + Len(pattern) > Len(text) THEN <<>>
    ELSE IF Slice(text, i, i + Len(pattern)) = pattern
         THEN <<[start |-> i, end |-> i + Len(pattern)]>>
              \o FindIter(text, pattern, i + Max2(1, Len(pattern)))
         ELSE FindIter(text, pattern, i + 1)

\* A faulty test: no span counts as held.
SpanHeldNever(entities, start, end) == FALSE

\* any(e.start == start and e.end == end for e in enhanced_entities)
SpanHeld(entities, start, end) ==
    \E i \in DOMAIN entities : entities[i].start = start /\ entities[i].end = end

\* "for match in matches"
RECURSIVE AppendMatches(_, _, _, _)
AppendMatches(enhanced_entities, matches, type, pattern) ==
    IF matches = <<>> THEN enhanced_entities
    ELSE LET m == Head(matches)
         IN  AppendMatches(
                 IF ~SpanHeld(enhanced_entities, m.start, m.end)
                 THEN Append(enhanced_entities,
                             [type |-> type, text |-> pattern,
                              start |-> m.start, end |-> m.end])
                 ELSE enhanced_entities,
                 Tail(matches), type, pattern)

\* self.pattern_weights.get(pattern, 0)
WeightOf(weights, pattern) == IF pattern \in DOMAIN weights THEN weights[pattern] ELSE 0

\* if weight < 0.5: continue
IsIgnored(weight) == weight < W_HALF

\* self.patterns.items(): the keys of the dict, in its order
DictKeys(pats, order) == SelectSeq(order, LAMBDA k : k \in DOMAIN pats)

\* "for pattern, info in self.patterns.items()", keys being what is left of
\* the keys
RECURSIVE EnhanceLoop(_, _, _, _, _)
EnhanceLoop(enhanced_entities, keys, pats, weights, text) ==
    IF keys = <<>> THEN enhanced_entities
    ELSE LET pattern == Head(keys)
         IN  EnhanceLoop(
                 IF IsIgnored(WeightOf(weights, pattern))
                 THEN enhanced_entities
                 ELSE AppendMatches(enhanced_entities, FindIter(text, pattern, 0),
                                    pats[pattern].type, pattern),
                 Tail(keys), pats, weights, text)

\* enhance_recognition(text, entities), on the store st = [patterns, order, weights]
EnhanceRecognition(st, text, entities) ==
    EnhanceLoop(entities, DictKeys(st.patterns, st.order), st.patterns, st.weights, text)

\* The caller's list after enhance_recognition: the call works on entities.copy().
EntitiesAfterEnhance(entities, enhanced_entities) == entities

Store == [patterns |-> patterns, order |-> pattern_order, weights |-> pattern_weights]

\* enhance_recognition(text, entities)
EnhanceCall(limit, text, entities) ==
    /\ events < limit
    /\ LET enhanced_entities == EnhanceRecognition(Store, text, entities)
       IN  /\ enhanced' = enhanced_entities
           /\ enhance_entities' = EntitiesAfterEnhance(entities, enhanced_entities)
    /\ enhance_text' = text
    /\ raised' = ""
    /\ events' = events + 1
    /\ UNCHANGED <<patterns, pattern_order, pattern_weights, entity_patterns>>
    /\ UNCHANGED <<fraudVars, timeVars, feedbackVars, fileVars, workerVars>>

Enhance(limit) ==
    \E text \in EnhanceTexts, entities \in EntityLists : EnhanceCall(limit, text, entities)

---------------------------------------------------------------------------
(* AdaptiveLearningManager *)

\* _learn_new_patterns: the body of "for entity in entities"
LearnEntityPattern(eps, text, entity) ==
    LET context_start == Max2(0, entity.start - ContextRadius)
        context_end == Min2(Len(text), entity.end + ContextRadius)
        context == Slice(text, context_start, context_end)
        pattern_key == entity.type \o "_" \o context
    IN  IF pattern_key \notin DOMAIN eps
        THEN (pattern_key :> [text |-> entity.text, type |-> entity.type,
                              context |-> context, weight |-> W_ONE]) @@ eps
        ELSE [eps EXCEPT ![pattern_key].weight = TimesOnePointOne(@)]

RECURSIVE LearnEntityPatterns(_, _, _)
LearnEntityPatterns(eps, text, entities) ==
    IF entities = <<>> THEN eps
    ELSE LearnEntityPatterns(LearnEntityPattern(eps, text, Head(entities)),
                             text, Tail(entities))

\* Feedback events: entity lists of up to two entities, the same entity twice
\* among them, and processing times
FeedbackLists ==
    {<<>>,
     <<[type |-> "ACCOUNT", text |-> "x", start |-> 0, end |-> 1]>>,
     <<[type |-> "ACCOUNT", text |-> "x", start |-> 0, end |-> 1],
       [type |-> "ACCOUNT", text |-> "x", start |-> 0, end |-> 1]>>,
     <<[type |-> "ACCOUNT", text |-> "x", start |-> 0, end |-> 1],
       [type |-> "MONEY", text |-> "y", start |-> 2, end |-> 3]>>}

Feedbacks ==
    [text : Documents, original : FeedbackLists, corrected : FeedbackLists,
     processing_time : {1}]
    \cup [text : Documents, original : {<<>>}, corrected : {<<>>}, processing_time : {2}]

\* The feedback events of the specifications that are about the weights
RepeatedFeedbacks ==
    {f \in Feedbacks : f.original = <<>> /\ f.processing_time = 1 /\ Len(f.corrected) # 1}

\* _entity_to_dict(entity): the dict of the four fields of an Entity
EntityToDict(entity) ==
    [type |-> entity.type, text |-> entity.text, start |-> entity.start, end |-> entity.end]

EntitiesToDicts(entities) == [i \in DOMAIN entities |-> EntityToDict(entities[i])]

\* A faulty log: the new record takes the place of the records before it.
HistoryReplaced(history, entry) == <<entry>>

\* self.feedback_history.append(feedback_entry)
HistoryAfter(history, entry) == Append(history, entry)

\* sum(1 for o in original if any(c.text == o.text and c.type == o.type for c in corrected))
CorrectCount(original, corrected) ==
    Cardinality({i \in DOMAIN original :
                    \E j \in DOMAIN corrected :
                        corrected[j].text = original[i].text
                        /\ corrected[j].type = original[i].type})

\* A faulty accuracy: the count is divided by the length of the original list.
CalculateAccuracyOverOriginal(original, corrected) ==
    IF corrected = <<>>
    THEN IF original = <<>> THEN ACC_ONE ELSE 0
    ELSE (CorrectCount(original, corrected) * ACC_ONE) \div Max2(1, Len(original))

\* _calculate_accuracy(original, corrected), in fixed point: ACC_ONE is 1.0.
\* The quotient is exact for lists of up to two entities.
CalculateAccuracy(original, corrected) ==
    IF corrected = <<>>
    THEN IF original = <<>> THEN ACC_ONE ELSE 0
    ELSE (CorrectCount(original, corrected) * ACC_ONE) \div Len(corrected)

\* feedback_entry
FeedbackEntry(t, text, original, corrected, time) ==
    [timestamp |-> IsoFormat(t), text |-> text,
     original_entities |-> EntitiesToDicts(original),
     corrected_entities |-> EntitiesToDicts(corrected),
     processing_time |-> time]

\* update_from_feedback(text, original_entities, corrected_entities, processing_time).
\* _save_learning_data then writes pattern_weights, feedback_history and
\* entity_patterns, as they are now, to their three files.
UpdateFromFeedbackCall(limit, text, original, corrected, time) ==
    /\ events < limit
    /\ feedback_history' =
           HistoryAfter(feedback_history,
                        FeedbackEntry(clock, text, original, corrected, time))
    /\ entity_accuracy' = Append(entity_accuracy, CalculateAccuracy(original, corrected))
    /\ processing_time' = Append(processing_time, time)
    /\ entity_patterns' = LearnEntityPatterns(entity_patterns, text, corrected)
    /\ raised' = ""
    /\ events' = events + 1
    /\ UNCHANGED <<patterns, pattern_order, pattern_weights, report>>
    /\ UNCHANGED fraudVars
    /\ UNCHANGED <<enhanceVars, timeVars, fileVars, workerVars>>

\* update_from_feedback for every feedback event of the set feedbacks
UpdateFromFeedback(limit, feedbacks) ==
    \E f \in feedbacks :
        UpdateFromFeedbackCall(limit, f.text, f.original, f.corrected, f.processing_time)

RECURSIVE Sum(_)
Sum(seq) == IF seq = <<>> THEN 0 ELSE Head(seq) + Sum(Tail(seq))

\* np.mean(seq), as the fraction num/den
Mean(seq) == [num |-> Sum(seq), den |-> Len(seq)]

\* np.polyfit(range(len(ys)), ys, 1)[0]: the slope of the least-squares line
\* through (0, ys[1]), (1, ys[2]), ..., as the fraction num/den, for two
\* points or more
PolyfitSlope(ys) ==
    LET n == Len(ys)
        sx == Sum([i \in 1..n |-> i - 1])
        sxx == Sum([i \in 1..n |-> (i - 1) * (i - 1)])
        sy == Sum(ys)
        sxy == Sum([i \in 1..n |-> (i - 1) * ys[i]])
    IN  IF n * sxx - sx * sx = 0 THEN [num |-> 0, den |-> 1]
        ELSE [num |-> n * sxy - sx * sy, den |-> n * sxx - sx * sx]

\* A faulty window: the whole list.
RecentAll(seq) == seq

\* seq[-100:]
Recent(seq) == SubSeq(seq, Max2(1, Len(seq) - WindowSize + 1), Len(seq))

NoData == [status |-> "No data available"]

\* np.polyfit on a single observation fits a line through one point, x = 0:
\* the library, which is not part of the repository, either gives a slope that
\* is not a number or raises
PolyfitOutcomes(ys) == IF Len(ys) = 1 THEN {"nan", "LinAlgError"} ELSE {"slope"}

NotANumber == [num |-> 0, den |-> 0]

\* get_performance_report() of AdaptiveLearningManager, for an outcome of
\* np.polyfit
PerformanceReport(outcome) ==
    IF entity_accuracy = <<>> THEN NoData
    ELSE IF outcome = "LinAlgError" THEN [raises |-> "LinAlgError"]
    ELSE [average_accuracy |-> Mean(Recent(entity_accuracy)),
          accuracy_trend |-> IF outcome = "nan" THEN NotANumber
                             ELSE PolyfitSlope(Recent(entity_accuracy)),
          average_processing_time |-> Mean(Recent(processing_time)),
          total_patterns_learned |-> Cardinality(DOMAIN entity_patterns),
          feedback_count |-> Len(feedback_history)]

GetPerformanceReport ==
    /\ \E outcome \in PolyfitOutcomes(Recent(entity_accuracy)) :
          report' = PerformanceReport(outcome)
    /\ UNCHANGED <<feedback_history, entity_accuracy, processing_time>>
    /\ UNCHANGED <<fraudVars, patternVars, enhanceVars, timeVars, fileVars, workerVars>>

---------------------------------------------------------------------------
(* FraudDetector: detect_time_anomalies *)

\* The text of a DATE entity is written in one of these layouts, all on the
\* day 2024-06-10: [layout, hour, minute].  A layout without a time of day
\* has hour 0 and minute 0.
TimedLayouts == {"%Y-%m-%dT%H:%M", "%Y-%m-%d %H:%M"}
DateOnlyLayouts == {"%Y-%m-%d", "%Y/%m/%d"}
SlashTimedLayout == "%Y/%m/%d %H:%M"
WordsLayout == "words"

TimeOfDayHours == {0, 7, 8, 14, 16, 23}

TimeTexts ==
    [layout : {"%Y-%m-%d %H:%M"}, hour : TimeOfDayHours, minute : {0, 30}]
    \cup {[layout |-> "%Y-%m-%dT%H:%M", hour |-> 14, minute |-> 0],
          [layout |-> SlashTimedLayout, hour |-> 10, minute |-> 30],
          [layout |-> "%Y-%m-%d", hour |-> 0, minute |-> 0],
          [layout |-> "%Y/%m/%d", hour |-> 0, minute |-> 0],
          [layout |-> WordsLayout, hour |-> 0, minute |-> 0]}

GeoTexts == {"Tokyo", "London", "Paris"}

DateEntities == {[type |-> "DATE", text |-> t, start |-> 0, end |-> 16] : t \in TimeTexts}
GeoEntities == {[type |-> "GEO", text |-> g, start |-> 20, end |-> 26] : g \in GeoTexts}

TimeEntityLists ==
    {d \o g : d \in {<<>>} \cup {<<e>> : e \in DateEntities}
                      \cup {<<e, f>> : e \in DateEntities, f \in DateEntities},
              g \in {<<>>} \cup {<<e>> : e \in GeoEntities}}

HostOffsets == {0, 9}       \* a host on UTC, a host on Tokyo time

\* FraudDetector.timezone_map
TimezoneMap ==
    [loc \in {"New York", "London", "Tokyo", "Singapore", "Beijing", "Shanghai", "Hong Kong"} |->
        CASE loc = "New York" -> "America/New_York"
          [] loc = "London" -> "Europe/London"
          [] loc = "Tokyo" -> "Asia/Tokyo"
          [] loc = "Singapore" -> "Asia/Singapore"
          [] loc = "Beijing" -> "Asia/Shanghai"
          [] loc = "Shanghai" -> "Asia/Shanghai"
          [] loc = "Hong Kong" -> "Asia/Hong_Kong"]

\* pytz: the hours a zone is east of UTC on 2024-06-10
ZoneOffset(zone) ==
    CASE zone = "America/New_York" -> -4
      [] zone = "Europe/London" -> 1
      [] zone = "Asia/Tokyo" -> 9
      [] zone = "Asia/Singapore" -> 8
      [] zone = "Asia/Shanghai" -> 8
      [] zone = "Asia/Hong_Kong" -> 8

\* re.match(r'\d{4}/\d{1,2}/\d{1,2}', time_str): the text starts as a slash date
StartsAsSlashDate(text) == text.layout \in {"%Y/%m/%d", SlashTimedLayout}

\* int(parts[2]) of time_str.split('/'): the third part is the day and
\* whatever follows it, a number only when nothing follows
DayPartIsNumber(text) == text.layout = "%Y/%m/%d"

\* parse_time(time_str): [kind, hour, minute]; kind is "naive" for a datetime
\* without tzinfo, "utc" for one in UTC, "None", or "ValueError" when the
\* call raises.  The rewriting of a slash date (lines 82-85) stands outside
\* every try; only the formats without a time of day get tzinfo=utc.
ParseTime(text) ==
    IF StartsAsSlashDate(text) /\ ~DayPartIsNumber(text)
    THEN [kind |-> "ValueError", hour |-> 0, minute |-> 0]
    ELSE IF text.layout \in TimedLayouts
         THEN [kind |-> "naive", hour |-> text.hour, minute |-> text.minute]
         ELSE IF text.layout \in DateOnlyLayouts
              THEN [kind |-> "utc", hour |-> 12, minute |-> 0]
              ELSE [kind |-> "None", hour |-> 0, minute |-> 0]

\* parsed_time.astimezone(tz).hour: a naive datetime is taken as a time of
\* the host's local timezone
LocalHour(parsed, zone, host) ==
    IF parsed.kind = "naive"
    THEN (parsed.hour - host + ZoneOffset(zone) + 48) % 24
    ELSE (parsed.hour + ZoneOffset(zone) + 48) % 24

\* not (9 <= local_time.hour <= 17)
OutsideBusinessHours(hour) == ~(9 <= hour /\ hour <= 17)

\* The body of "for loc_ent in location_entities", on the list anomalies.  Of
\* an Anomaly the description is kept as the local time it names; the context,
\* a piece of the text argument, is left out.
LocationStep(anomalies, time_ent, parsed, loc_ent, host) ==
    IF loc_ent.text \notin DOMAIN TimezoneMap
    THEN anomalies
    ELSE LET hour == LocalHour(parsed, TimezoneMap[loc_ent.text], host)
         IN  IF OutsideBusinessHours(hour)
             THEN Append(anomalies,
                         [type |-> "TIME_ANOMALY", entities |-> <<time_ent, loc_ent>>,
                          local_hour |-> hour, local_minute |-> parsed.minute,
                          confidence |-> "0.85"])
             ELSE anomalies

RECURSIVE LocationLoop(_, _, _, _, _)
LocationLoop(anomalies, time_ent, parsed, locs, host) ==
    IF locs = <<>> THEN anomalies
    ELSE LocationLoop(LocationStep(anomalies, time_ent, parsed, Head(locs), host),
                      time_ent, parsed, Tail(locs), host)

\* "for time_ent in time_entities", on r = [anomalies, raised]: an exception
\* of parse_time leaves the function at once
RECURSIVE TimeLoop(_, _, _, _)
TimeLoop(r, times, locs, host) ==
    IF times = <<>> THEN r
    ELSE LET parsed == ParseTime(Head(times).text)
         IN  IF parsed.kind = "ValueError"
             THEN [anomalies |-> <<>>, raised |-> "ValueError"]
             ELSE IF parsed.kind = "None"
                  THEN TimeLoop(r, Tail(times), locs, host)
                  ELSE TimeLoop([r EXCEPT !.anomalies =
                                     LocationLoop(@, Head(times), parsed, locs, host)],
                                Tail(times), locs, host)

\* detect_time_anomalies(entities, text)
DetectTimeAnomaliesOf(entities, host) ==
    LET time_ents == SelectSeq(entities, LAMBDA e : e.type = "DATE")
        location_ents == SelectSeq(entities, LAMBDA e : e.type = "GEO")
    IN  TimeLoop([anomalies |-> <<>>, raised |-> ""], time_ents, location_ents, host)

DetectTimeAnomalies(limit) ==
    /\ time_calls < limit
    /\ \E entities \in TimeEntityLists :
         LET r == DetectTimeAnomaliesOf(entities, host_offset)
         IN  /\ time_entities' = entities
             /\ time_anomalies' = r.anomalies
             /\ time_raised' = r.raised
    /\ time_calls' = time_calls + 1
    /\ UNCHANGED host_offset
    /\ UNCHANGED <<fraudVars, patternVars, enhanceVars, feedbackVars, fileVars, workerVars>>

---------------------------------------------------------------------------
InitOthers ==
    /\ nodes = <<>>
    /\ edges = <<>>
    /\ transactions = <<>>
    /\ clock = 0
    /\ ops = 0
    /\ call = "init"
    /\ out = EmptyOutput
    /\ suspicious = <<>>
    /\ transfers = <<>>
    /\ mentions = [a \in Accounts |-> 0]
    /\ entity_patterns = NoAttrs
    /\ raised = ""
    /\ enhance_text = <<>>
    /\ enhance_entities = <<>>
    /\ enhanced = <<>>
    /\ time_entities = <<>>
    /\ time_anomalies = <<>>
    /\ time_raised = ""
    /\ time_calls = 0
    /\ report = [status |-> "not asked"]
    /\ patterns_file = "absent"
    /\ workers = [w \in Workers |-> IdleWorker]

\* AdaptiveLearningManager.__init__ on an empty data directory
InitNoFeedback ==
    /\ events = 0
    /\ feedback_history = <<>>
    /\ entity_accuracy = <<>>
    /\ processing_time = <<>>

\* AdaptiveSystem.__init__: self.patterns = {}, self.pattern_weights = {}
InitEmptyStore ==
    /\ patterns = NoAttrs
    /\ pattern_order = <<>>
    /\ pattern_weights = NoAttrs

\* The state after construction, on a host whose local timezone is UTC
Init == InitOthers /\ InitEmptyStore /\ InitNoFeedback /\ host_offset = 0

\* The state after construction, on any host
InitTime == InitOthers /\ InitEmptyStore /\ InitNoFeedback /\ host_offset \in HostOffsets

\* The stores enhance_recognition is applied to: up to two patterns, of any
\* type and order, with weights on both sides of 0.5 and the weight 1.0 of a
\* new pattern
PatternTexts == {"x", "y"}
StoreWeights == {W_HALF - 1, W_HALF, W_HALF + 1, W_ONE}
Stores ==
    UNION {[patterns : [K -> [type : {"ACCOUNT", "MONEY"}, count : {1}]],
            order : WalkOrders(K),
            weights : [K -> StoreWeights]] : K \in SUBSET PatternTexts}

\* A pattern store of any content, before enhance_recognition is applied
InitEnhance ==
    /\ InitOthers
    /\ InitNoFeedback
    /\ host_offset = 0
    /\ \E st \in Stores :
         /\ patterns = st.patterns
         /\ pattern_order = st.order
         /\ pattern_weights = st.weights

\* Text chunks and tabular rows in any order, with time passing.
NextGraph == AddChunk(MaxOps) \/ AddRow(MaxOps) \/ Tick

SpecGraph == Init /\ [][NextGraph]_vars

\* Tabular rows and analysis.
NextDetect == AddRow(MaxRows) \/ Detect

SpecDetect == Init /\ [][NextDetect]_vars

\* Text chunks and analysis, with time passing.
NextText == AddChunk(MaxChunks) \/ Tick \/ Detect

SpecText == Init /\ [][NextText]_vars

\* The pattern stores under any sequence of learning events.
NextPattern ==
    \/ UpdatePatterns(MaxEvents)
    \/ LearnFromFeedback(MaxEvents)
    \/ UpdateFromFeedback(MaxEvents, RepeatedFeedbacks)

SpecPattern == Init /\ [][NextPattern]_vars

\* The two pattern stores under any sequence of update, learn and enhance calls.
NextStore ==
    \/ UpdatePatterns(MaxStoreOps)
    \/ LearnFromFeedback(MaxStoreOps)
    \/ UpdateFromFeedback(MaxStoreOps, RepeatedFeedbacks)
    \/ Enhance(MaxStoreOps)

SpecStore == Init /\ [][NextStore]_vars

\* enhance_recognition applied to any store.
NextEnhance == Enhance(MaxEnhanceCalls)

SpecEnhance == InitEnhance /\ [][NextEnhance]_vars

\* Feedback events and reports of one AdaptiveLearningManager.
NextFeedback == UpdateFromFeedback(MaxFeedback, Feedbacks) \/ GetPerformanceReport

SpecFeedback == Init /\ [][NextFeedback]_vars

\* An AdaptiveSystem that learns, saves and is constructed again.
NextRestart ==
    \/ UpdatePatterns(MaxRestartOps)
    \/ LearnFromFeedback(MaxRestartOps)
    \/ ConstructAdaptiveSystem(MaxRestartOps)

SpecRestart == Init /\ [][NextRestart]_vars

\* An AdaptiveLearningManager that has taken n equal feedback events with an
\* empty corrected list, n one below the window size or equal to it
WindowSeeds ==
    {f \in Feedbacks : f.corrected = <<>> /\ Len(f.original) <= 1 /\ f.processing_time = 1}

InitWindow ==
    /\ InitOthers
    /\ InitEmptyStore
    /\ host_offset = 0
    /\ \E n \in {WindowSize - 1, WindowSize}, f \in WindowSeeds :
         /\ events = n
         /\ feedback_history =
                [i \in 1..n |-> FeedbackEntry(0, f.text, f.original, f.corrected,
                                              f.processing_time)]
         /\ entity_accuracy = [i \in 1..n |-> CalculateAccuracy(f.original, f.corrected)]
         /\ processing_time = [i \in 1..n |-> f.processing_time]

\* The feedback events that follow: the accuracies 0.0, 0.5 and 1.0
WindowFeedbacks ==
    {f \in Feedbacks : Len(f.original) = 1 /\ f.processing_time = 1}

\* Feedback events and reports around the hundredth observation.
NextWindow == UpdateFromFeedback(MaxObservations, WindowFeedbacks) \/ GetPerformanceReport

SpecWindow == InitWindow /\ [][NextWindow]_vars

\* The store the threads share: update_patterns has stored the pattern 'x'
SharedStore ==
    UpdatePatternsLoop([patterns |-> NoAttrs, pattern_weights |-> NoAttrs],
                       <<[type |-> "ACCOUNT", text |-> "x", start |-> 0, end |-> 1]>>)

InitSharedStore ==
    /\ patterns = SharedStore.patterns
    /\ pattern_order = <<"x">>
    /\ pattern_weights = SharedStore.pattern_weights

InitWorkers == InitOthers /\ InitSharedStore /\ InitNoFeedback /\ host_offset = 0

\* Two threads call update_patterns on one AdaptiveSystem.
NextWorkers ==
    \E w \in Workers :
        \/ WorkerStart(MaxWorkerCalls, w)
        \/ WorkerTest(w)
        \/ WorkerInsert(w)
        \/ WorkerSetWeight(w)
        \/ WorkerReadCount(w)
        \/ WorkerWriteCount(w)
        \/ WorkerReadWeight(w)
        \/ WorkerWriteWeight(w)

SpecWorkers == InitWorkers /\ [][NextWorkers]_vars

\* Time-anomaly detection on any host.
NextTime == DetectTimeAnomalies(MaxTimeCalls)

SpecTime == InitTime /\ [][NextTime]_vars

---------------------------------------------------------------------------
(* Notions the properties are stated in *)

TransactionNodes == {i \in DOMAIN nodes : NodeType(nodes[i]) = "transaction"}

IncomingInitiated(id) ==
    {e \in DOMAIN edges : edges[e].dst = id /\ edges[e].relation_type = "initiated"}

OutgoingSentTo(id) ==
    {e \in DOMAIN edges : edges[e].src = id /\ edges[e].relation_type = "sent_to"}

\* The recorded transactions of an account, and the minutes they span
TxIndexes(acc) == {i \in DOMAIN transactions : transactions[i].account_id = acc}
TxTimes(I) == {transactions[i].timestamp : i \in I}
SpanOf(T) == SetMax(T) - SetMin(T)

\* The text-derived transfers an account initiated
TransferIndexes(acc) == {i \in DOMAIN transfers : transfers[i].source = acc}
TransferTimes(acc) == {transfers[i].timestamp : i \in TransferIndexes(acc)}

HighFrequencyReports(acc) ==
    {j \in DOMAIN suspicious :
        suspicious[j].type = "high_frequency_transfer" /\ suspicious[j].account = acc}

LargeAmountReports ==
    {j \in DOMAIN suspicious : suspicious[j].type = "large_amount_transaction"}

\* Three transactions of the account lie within a span shorter than the window
ThreeWithinWindow(acc) ==
    \E I \in SUBSET TxIndexes(acc) :
        Cardinality(I) = 3 /\ SpanOf(TxTimes(I)) < TimeWindowMinutes

---------------------------------------------------------------------------
(* Transaction graph *)

\* C2: every node whose node_type is 'transaction' has exactly one incoming
\* 'initiated' edge and at least one outgoing 'sent_to' edge.
C2_TransactionShape ==
    \A i \in TransactionNodes :
        /\ Cardinality(IncomingInitiated(nodes[i].id)) = 1
        /\ Cardinality(OutgoingSentTo(nodes[i].id)) >= 1

\* C3: every recorded transfer creates a transaction node of its own, so there
\* are as many transaction nodes as transfers recorded (text-derived transfers
\* and tabular rows).
C3_UniqueTransactionIds ==
    Cardinality(TransactionNodes) = Len(transactions) + Len(transfers)

---------------------------------------------------------------------------
(* Suspicious pattern detection *)

\* C4: detect_suspicious_patterns leaves nodes, edges and the transaction list
\* as they are, and a call that follows another call returns the same list.
C4_DetectIsPureRead ==
    [][call' = "detect" =>
          /\ nodes' = nodes
          /\ edges' = edges
          /\ transactions' = transactions
          /\ (call = "detect" => suspicious' = suspicious)]_vars

\* C4 happens: the analysis has run over transactions that are not in time
\* order and has reported something.
C4_Witness ==
    /\ call = "detect"
    /\ suspicious # <<>>
    /\ \E i, j \in DOMAIN transactions :
          i < j /\ transactions[i].timestamp > transactions[j].timestamp

\* C5: an account with at least 3 transactions spanning less than the window
\* gets exactly one high_frequency_transfer report, whose transaction_count is
\* the number of its transactions; any other account gets none.
C5_HighFrequencyExact ==
    call = "detect" =>
        \A acc \in Accounts :
            LET I == TxIndexes(acc)
            IN  IF Cardinality(I) >= 3 /\ SpanOf(TxTimes(I)) < TimeWindowMinutes
                THEN /\ Cardinality(HighFrequencyReports(acc)) = 1
                     /\ \A j \in HighFrequencyReports(acc) :
                            suspicious[j].transaction_count = Cardinality(I)
                ELSE HighFrequencyReports(acc) = {}

\* C5 happens: one account has 3 transactions within the window and is
\* reported, while another account has transactions and is not.
C5_Witness ==
    /\ call = "detect"
    /\ \E acc \in Accounts :
          /\ Cardinality(TxIndexes(acc)) >= 3
          /\ SpanOf(TxTimes(TxIndexes(acc))) < TimeWindowMinutes
          /\ Cardinality(TxTimes(TxIndexes(acc))) >= 2
          /\ HighFrequencyReports(acc) # {}

\* C6, as claimed: an account with 3 transactions within a span shorter than
\* the window is reported, whatever other transactions it has.
C6_SlidingWindow ==
    call = "detect" =>
        \A acc \in Accounts : ThreeWithinWindow(acc) => HighFrequencyReports(acc) # {}

\* C6, amended: the span is taken over all transactions of the account; an
\* account with 3 transactions within the window and another transaction that
\* stretches its whole span to the window or beyond is not reported.
C6_WholeSpan ==
    call = "detect" =>
        \A acc \in Accounts :
            (ThreeWithinWindow(acc) /\ SpanOf(TxTimes(TxIndexes(acc))) >= TimeWindowMinutes)
                => HighFrequencyReports(acc) = {}

\* C6 happens: such an account exists when the analysis has run.
C6_Witness ==
    /\ call = "detect"
    /\ \E acc \in Accounts :
          ThreeWithinWindow(acc) /\ SpanOf(TxTimes(TxIndexes(acc))) >= TimeWindowMinutes

\* C7: an account that initiated 3 text-derived transfers within the window is
\* reported as high_frequency_transfer.
C7_FormatAgnostic ==
    call = "detect" =>
        \A acc \in Accounts :
            (Cardinality(TransferIndexes(acc)) >= 3
             /\ SpanOf(TransferTimes(acc)) < TimeWindowMinutes)
                => HighFrequencyReports(acc) # {}

\* C8: a transaction whose amount equals the threshold of the comparison is
\* not reported; one whose amount is one step above it is reported as
\* large_amount_transaction with its account, amount and timestamp; and there
\* are as many reports as transactions above the threshold.
C8_StrictThreshold ==
    call = "detect" =>
        /\ \A j \in LargeAmountReports : suspicious[j].amount # LargeAmountThreshold
        /\ \A i \in DOMAIN transactions :
              transactions[i].amount = LargeAmountThreshold + 1 =>
                  \E j \in LargeAmountReports :
                      /\ suspicious[j].account = transactions[i].account_id
                      /\ suspicious[j].amount = transactions[i].amount
                      /\ suspicious[j].timestamp = IsoFormat(transactions[i].timestamp)
                      /\ suspicious[j].transaction_id = transactions[i].transaction_id
        /\ Cardinality(LargeAmountReports) =
               Cardinality({i \in DOMAIN transactions :
                               transactions[i].amount > LargeAmountThreshold})

\* C8 happens: a transaction at the threshold and one a step above it have
\* been analysed.
C8_Witness ==
    /\ call = "detect"
    /\ \E i, k \in DOMAIN transactions :
          /\ transactions[i].amount = LargeAmountThreshold
          /\ transactions[k].amount = LargeAmountThreshold + 1
          /\ transactions[i].account_id = transactions[k].account_id

\* C9: with the defaults no large_amount_transaction is reported for an amount
\* of at most 10,000.
C9_DefaultThreshold ==
    call = "detect" =>
        \A j \in LargeAmountReports : suspicious[j].amount > ConfiguredLargeAmount

---------------------------------------------------------------------------
(* Pattern stores *)

AllWeights ==
    {pattern_weights[p] : p \in DOMAIN pattern_weights}
    \cup {entity_patterns[k].weight : k \in DOMAIN entity_patterns}

\* C1: after every learning event every pattern's weight is within [0, 2.0].
C1_WeightBounds ==
    \A w \in AllWeights : 0 <= w /\ w <= 2 * W_ONE

---------------------------------------------------------------------------
(* Account activity and incomplete transfers *)

\* The places of the nodes whose id is acc
AccountNodes(ns, acc) == {i \in DOMAIN ns : ns[i].id = acc}

\* An attribute of a node, the empty text when the node does not carry it
NodeAttr(n, key) == IF key \in DOMAIN n.attrs THEN n.attrs[key] ELSE NoText

\* The activity time of an ingestion step: the timestamp of the row it
\* recorded, the clock reading for a text chunk
ActivityTime ==
    IF Len(transactions') > Len(transactions)
    THEN transactions'[Len(transactions')].timestamp
    ELSE clock

\* C11: an ingestion call that names an account already in the graph leaves
\* that account with last_activity equal to the activity time of this call
\* and with node_type "account".
C11_LastActivityRefreshed ==
    [][\A acc \in Accounts :
          (mentions'[acc] > mentions[acc] /\ HasNode(nodes, acc)) =>
              \A i \in AccountNodes(nodes', acc) :
                  /\ NodeAttr(nodes'[i], "last_activity") = IsoFormat(ActivityTime)
                  /\ NodeType(nodes'[i]) = "account"]_vars

\* A transfer relation whose source or target text is empty
IncompleteTransfer(rel) ==
    /\ rel.relation_type = "TRANSFER_TO"
    /\ rel.has_source
    /\ (rel.source = NoText \/ rel.target = NoText)

\* C12: add_transaction_chunk does not return its normal output for a chunk
\* that carries a transfer whose source or target is missing.
C12_IncompleteTransferReported ==
    [][\A accs \in SUBSET Accounts, rels \in RelationLists :
          \A order \in WalkOrders(accs) :
              (/\ AddChunkCall(MaxOps, accs, rels, order)
               /\ \E i \in DOMAIN rels : IncompleteTransfer(rels[i]))
              => out'.kind # "output"]_vars

---------------------------------------------------------------------------
(* Time anomalies *)

DateIndexes == {i \in DOMAIN time_entities : time_entities[i].type = "DATE"}
GeoIndexes == {j \in DOMAIN time_entities : time_entities[j].type = "GEO"}

\* The last call reported the pair of the DATE entity at i and the GEO entity at j
Reported(i, j) ==
    \E k \in DOMAIN time_anomalies :
        time_anomalies[k].entities = <<time_entities[i], time_entities[j]>>

\* The DATE entity at i parses and the GEO entity at j has a known timezone
Evaluable(i, j) ==
    /\ ParseTime(time_entities[i].text).kind \in {"naive", "utc"}
    /\ time_entities[j].text \in DOMAIN TimezoneMap

\* The local hour detect_time_anomalies computes for the pair
PairLocalHour(i, j) ==
    LocalHour(ParseTime(time_entities[i].text), TimezoneMap[time_entities[j].text],
              host_offset)

\* C13: on every host, a DATE entity with a time of day is taken as UTC: every
\* anomaly of such an entity names the hour of the day plus the offset of the
\* zone, and the one DATE entity 14:00 with the one GEO entity Tokyo gives
\* exactly one anomaly, of local hour 23.
C13_TimeOfDayIsUTC ==
    time_calls > 0 =>
        /\ \A k \in DOMAIN time_anomalies :
              LET d == time_anomalies[k].entities[1]
                  g == time_anomalies[k].entities[2]
              IN  d.text.layout \in TimedLayouts =>
                      time_anomalies[k].local_hour =
                          (d.text.hour + ZoneOffset(TimezoneMap[g.text])) % 24
        /\ (/\ Len(time_entities) = 2
            /\ time_entities[1].text = [layout |-> "%Y-%m-%d %H:%M", hour |-> 14, minute |-> 0]
            /\ time_entities[2].text = "Tokyo")
           => /\ Len(time_anomalies) = 1
              /\ time_anomalies[1].local_hour = 23

\* C14: a pair of a DATE entity that parses and a GEO entity of a known
\* timezone is reported exactly when its local hour is outside 9..16; local
\* hour 17 is reported.
C14_HalfOpenBusinessHours ==
    (time_calls > 0 /\ time_raised = "") =>
        \A i \in DateIndexes, j \in GeoIndexes :
            Evaluable(i, j) => (Reported(i, j) <=> PairLocalHour(i, j) \notin 9..16)

\* C15: parse_time never raises, so detect_time_anomalies returns, and a DATE
\* entity that does not parse does not keep the other DATE entities of the
\* call from being evaluated.
C15_ParseTimeNeverRaises ==
    time_calls > 0 =>
        /\ time_raised = ""
        /\ \A i \in DateIndexes, j \in GeoIndexes :
              (Evaluable(i, j) /\ OutsideBusinessHours(PairLocalHour(i, j)))
                  => Reported(i, j)

---------------------------------------------------------------------------
(* Enhancement *)

\* The places of the entities the last enhance_recognition call appended
Appended == {k \in DOMAIN enhanced : k > Len(enhance_entities)}

\* The places of text where the literal pattern stands
Occurrences(text, pattern) ==
    {i \in 0..(Len(text) - Len(pattern)) : Slice(text, i, i + Len(pattern)) = pattern}

\* C16: enhance_recognition applied to its own result returns that result; no
\* entity it appends has the span of an entity that stands before it in the
\* list; and the caller's list is left as it was.
C16_EnhanceIdempotent ==
    [][\A text \in EnhanceTexts, entities \in EntityLists :
          EnhanceCall(MaxEnhanceCalls, text, entities) =>
              /\ EnhanceRecognition(Store, text, enhanced') = enhanced'
              /\ \A k \in (Len(entities) + 1)..Len(enhanced') :
                    \A j \in 1..(k - 1) :
                        <<enhanced'[j].start, enhanced'[j].end>>
                            # <<enhanced'[k].start, enhanced'[k].end>>
              /\ enhance_entities' = entities]_vars

\* An enhancement appended an entity and passed over a match whose span an
\* entity of the list held.
C16_Witness ==
    /\ events > 0
    /\ Appended # {}
    /\ \E i \in DOMAIN enhance_entities :
          LET e == enhance_entities[i]
          IN  /\ e.text \in DOMAIN patterns
              /\ ~IsIgnored(WeightOf(pattern_weights, e.text))
              /\ e.start \in Occurrences(enhance_text, e.text)

---------------------------------------------------------------------------
(* Learning from feedback *)

\* len(self.patterns)
StoredPatternCount == Cardinality(DOMAIN patterns)

\* C18: learn_from_feedback with corrected entities at spans the original
\* list does not have returns without error and has stored three patterns for
\* each such entity.
C18_AddedEntityLearned ==
    [][\A text \in Documents, original \in EntityLists, corrected \in EntityLists :
          (/\ LearnFromFeedbackCall(MaxStoreOps, text, original, corrected)
           /\ AddedSpans(original, corrected) # {})
          => /\ raised' = ""
             /\ StoredPatternCount' =
                    StoredPatternCount + 3 * Cardinality(AddedSpans(original, corrected))]_vars

\* weight *= 0.9, on fixed-point weights
TimesPointNine(w) == w - (w \div 10)

\* The weight C19 gives a pattern of type ptype after one entity changed its
\* type from otype to ctype
ReweighedWeight(w, ptype, otype, ctype) ==
    IF ptype = otype THEN TimesPointNine(w)
    ELSE IF ptype = ctype THEN Min2(TimesOnePointOne(w), 2 * W_ONE)
    ELSE w

\* C19: learn_from_feedback with one entity whose type was changed returns
\* without error, with the weight of every stored pattern of the original type
\* times 0.9, of the corrected type times 1.1 and at most 2.0, and of any other
\* type as it was.
C19_ModifiedTypeReweighs ==
    [][\A text \in Documents, original \in EntityLists, corrected \in EntityLists :
          (/\ LearnFromFeedbackCall(MaxStoreOps, text, original, corrected)
           /\ AddedSpans(original, corrected) = {}
           /\ Cardinality(ModifiedSpans(original, corrected)) = 1)
          => LET pos == CHOOSE q \in ModifiedSpans(original, corrected) : TRUE
                 otype == SpanMap(original)[pos].type
                 ctype == SpanMap(corrected)[pos].type
             IN  /\ raised' = ""
                 /\ \A p \in DOMAIN patterns :
                       pattern_weights'[p] =
                           ReweighedWeight(pattern_weights[p], patterns[p].type,
                                           otype, ctype)]_vars

\* C20: no call takes a pattern out of a store: a key of AdaptiveSystem's
\* patterns or of AdaptiveLearningManager's entity_patterns stays a key, and
\* keeps its weight entry.
C20_PatternsNeverDeleted ==
    [][/\ \A p \in DOMAIN patterns :
            p \in DOMAIN patterns' /\ p \in DOMAIN pattern_weights'
       /\ \A k \in DOMAIN entity_patterns : k \in DOMAIN entity_patterns']_vars

\* Two patterns are stored, one of them seen again after it was stored, and
\* both stores were used after that.
C20_Witness ==
    /\ Cardinality(DOMAIN patterns) >= 2
    /\ \E p \in DOMAIN patterns : patterns[p].count >= 2
    /\ Appended # {}

---------------------------------------------------------------------------
(* Feedback events of AdaptiveLearningManager *)

\* The key under which a pattern of the entity is stored
KeyOf(text, entity) ==
    entity.type \o "_" \o Slice(text, Max2(0, entity.start - ContextRadius),
                                Min2(Len(text), entity.end + ContextRadius))

\* The keys whose pattern a step created or changed
TouchedKeys ==
    {k \in DOMAIN entity_patterns' :
        k \notin DOMAIN entity_patterns \/ entity_patterns'[k] # entity_patterns[k]}

\* C21: update_from_feedback creates or reinforces a pattern only for an entity
\* of the corrected list whose span the original list does not have; a call
\* whose corrected list equals its original list leaves every pattern as it is.
C21_LearnsOnlyAddedEntities ==
    [][\A f \in Feedbacks :
          UpdateFromFeedbackCall(MaxFeedback, f.text, f.original, f.corrected,
                                 f.processing_time) =>
              /\ f.corrected = f.original => entity_patterns' = entity_patterns
              /\ \A k \in TouchedKeys :
                    \E i \in DOMAIN f.corrected :
                        /\ <<f.corrected[i].start, f.corrected[i].end>>
                               \in AddedSpans(f.original, f.corrected)
                        /\ k = KeyOf(f.text, f.corrected[i])]_vars

\* The places of original whose entity has its text and type in corrected
FoundInCorrected(original, corrected) ==
    {i \in DOMAIN original :
        \E j \in DOMAIN corrected :
            corrected[j].text = original[i].text /\ corrected[j].type = original[i].type}

\* C22: the accuracy recorded for a feedback event is the number of original
\* entities found in the corrected list divided by the number of corrected
\* entities; 1.0 when both lists are empty, 0.0 when only the corrected list is
\* empty, and 1.0 for original [e1, e2] with corrected [e1].
C22_AccuracyFormula ==
    /\ Len(entity_accuracy) = Len(feedback_history)
    /\ \A i \in DOMAIN feedback_history :
          LET o == feedback_history[i].original_entities
              c == feedback_history[i].corrected_entities
          IN  /\ c # <<>> =>
                    entity_accuracy[i] * Len(c)
                        = Cardinality(FoundInCorrected(o, c)) * ACC_ONE
              /\ (c = <<>> /\ o = <<>>) => entity_accuracy[i] = ACC_ONE
              /\ (c = <<>> /\ o # <<>>) => entity_accuracy[i] = 0
              /\ (Len(o) = 2 /\ o[1] # o[2] /\ c = <<o[1]>>) => entity_accuracy[i] = ACC_ONE

\* A feedback event of original [e1, e2] and corrected [e1] was recorded, and
\* one of two empty lists.
C22_Witness ==
    /\ \E i \in DOMAIN feedback_history :
          LET o == feedback_history[i].original_entities
              c == feedback_history[i].corrected_entities
          IN  Len(o) = 2 /\ o[1] # o[2] /\ c = <<o[1]>> /\ entity_accuracy[i] = ACC_ONE
    /\ \E i \in DOMAIN feedback_history :
          /\ feedback_history[i].original_entities = <<>>
          /\ feedback_history[i].corrected_entities = <<>>

\* C23: every step keeps the records of the feedback log in their places, a
\* call of update_from_feedback adds exactly one record at the end, and a
\* report that counts the feedback events counts the records of the log.
C23_LogAppendOnly ==
    [][/\ Len(feedback_history') >= Len(feedback_history)
       /\ SubSeq(feedback_history', 1, Len(feedback_history)) = feedback_history
       /\ events' # events => Len(feedback_history') = Len(feedback_history) + 1
       /\ (report' # report /\ "feedback_count" \in DOMAIN report') =>
              report'.feedback_count = Len(feedback_history')]_vars

\* Two feedback events are in the log and a report has counted them.
C23_Witness ==
    /\ Len(feedback_history) >= 2
    /\ "feedback_count" \in DOMAIN report
    /\ report.feedback_count = Len(feedback_history)

\* C24, as claimed: the accuracy observations kept are at most 100.
C24_WindowBounded == Len(entity_accuracy) <= WindowSize

\* The accuracy observations from place lo on
AccuracyFrom(lo) ==
    [i \in 1..(Len(entity_accuracy') - lo + 1) |-> entity_accuracy'[lo + i - 1]]

\* C24, amended: the observations are all kept; a report takes average_accuracy
\* and accuracy_trend from the last 100 of them and from no other.
C24_ReportUsesLastHundred ==
    [][(report' # report /\ "average_accuracy" \in DOMAIN report') =>
          LET n == Len(entity_accuracy')
              lo == IF n > WindowSize THEN n - WindowSize + 1 ELSE 1
          IN  /\ report'.average_accuracy.den <= WindowSize
              /\ report'.average_accuracy = Mean(AccuracyFrom(lo))
              /\ report'.accuracy_trend = PolyfitSlope(AccuracyFrom(lo))]_vars

\* A report was made of more than 100 observations, the first of which
\* differs from the last.
C24_Witness ==
    /\ Len(entity_accuracy) > WindowSize
    /\ "average_accuracy" \in DOMAIN report
    /\ report.feedback_count = Len(feedback_history)
    /\ entity_accuracy[1] # entity_accuracy[Len(entity_accuracy)]

\* C29: every accuracy that update_from_feedback records lies between 0.0 and
\* 1.0.
C29_AccuracyWithinUnit ==
    \A i \in DOMAIN entity_accuracy : 0 <= entity_accuracy[i] /\ entity_accuracy[i] <= ACC_ONE

---------------------------------------------------------------------------
(* Restart of AdaptiveSystem *)

\* C26: once learned_patterns.json has been written, constructing an AdaptiveSystem on
\* the data directory raises nothing.  (The file save_patterns leaves holds
\* the empty list or nothing, so that a new store has every pattern of the
\* file as soon as it is constructed.)
C26_StateSurvivesRestart ==
    [][(ConstructAdaptiveSystem(MaxRestartOps) /\ patterns_file # "absent") =>
          raised' = ""]_vars

---------------------------------------------------------------------------
(* Order of the anomalies, node types, failed ingestion *)

\* The places of the anomaly of a large transaction in the list returned
AnomalyPlaces(tx) ==
    {p \in DOMAIN suspicious : suspicious[p] = LargeAmountAnomaly(tx.account_id, tx)}

\* C27: of two flagged transactions of one timestamp, the anomaly of the one
\* ingested earlier stands before the anomaly of the other in the list
\* detect_suspicious_patterns returns, whatever their accounts.
C27_InsertionOrderAtEqualTimestamps ==
    call = "detect" =>
        \A i, j \in DOMAIN transactions :
            (/\ i < j
             /\ IsLargeAmount(transactions[i])
             /\ IsLargeAmount(transactions[j])
             /\ transactions[i].timestamp = transactions[j].timestamp)
            => \E p \in AnomalyPlaces(transactions[i]), q \in AnomalyPlaces(transactions[j]) :
                  p < q

\* TransactionGraphNode.node_type
NodeTypes == {"account", "transaction", "location"}

\* C28: every node of the graph has one of the three node types, and both
\* ends of every recorded transfer are account nodes.
C28_NodesAreTyped ==
    /\ \A i \in DOMAIN nodes : NodeType(nodes[i]) \in NodeTypes
    /\ \A k \in DOMAIN transfers :
          \A i \in AccountNodes(nodes, transfers[k].source)
                    \cup AccountNodes(nodes, transfers[k].target) :
              NodeType(nodes[i]) = "account"

\* C30: an add_transaction_chunk call that returns the empty result leaves the
\* nodes, the edges and the transaction list as they were.
C30_FailureLeavesGraph ==
    [][(ops' # ops /\ out'.kind = "empty") =>
          /\ nodes' = nodes
          /\ edges' = edges
          /\ transactions' = transactions]_vars

---------------------------------------------------------------------------
(* Threads on one pattern store *)

\* The weights after the call of thread a and then the call of thread b, each
\* run alone on the shared store
SequentialWeights(a, b) ==
    UpdatePatternsLoop(UpdatePatternsLoop(SharedStore, workers[a].input),
                       workers[b].input).pattern_weights

\* Each thread has made one call, both calls have returned, and both had the
\* stored pattern 'x' among their entities
BothUpdatedX ==
    /\ events = Cardinality(Workers)
    /\ \A w \in Workers :
          /\ workers[w].pc = "done"
          /\ \E i \in DOMAIN workers[w].input : workers[w].input[i].text = "x"

\* C25: when two threads have updated the weight of one pattern of a shared
\* store, the weight is the one that the two calls give in one of the two
\* sequential orders: no update is lost.
C25_NoLostUpdate ==
    BothUpdatedX =>
        \E a, b \in Workers :
            a # b /\ pattern_weights["x"] = SequentialWeights(a, b)["x"]
====
